---- MODULE Spec2Model ----
(***************************************************************************)
(* Model of migrate_db.py: creation of a staging PostgreSQL database,      *)
(* replication of the production schema, and the redact-and-load loop      *)
(* that copies the tables account, address and statement.                  *)
(*                                                                         *)
(* Python tuples and lists are 0-indexed, TLA+ sequences are 1-indexed:    *)
(* Python position p of a row is element p + 1 of the modelled row.        *)
(***************************************************************************)
EXTENDS Integers, Sequences, FiniteSets, TLC

VARIABLES
    pc,             \* position of migrate_db
    exit_status,    \* process exit status once the run has ended, -1 before
    exc,            \* the exception that ended the run, "none" otherwise
    src,            \* production database: table name -> list of rows
    procs,          \* the subprocess calls made, in order
    log,            \* the session operations made, in order
    staging_conn,   \* "unopened" | "open" | "closed"
    prod_conn,      \* "unopened" | "open" | "closed"
    staging_txn,    \* rows inserted in the staging session's open transaction
    staging_db,     \* rows committed (visible) in the staging database
    ti,             \* index of the table the outer loop is at
    rows,           \* result of prod_cursor.fetchall() for the current table
    ri,             \* index of the row the inner loop is at
    row,            \* loop variable row
    new_row,        \* local new_row (meaningful when new_row_bound)
    new_row_bound,  \* whether the local new_row has been assigned
    new_row_of,     \* the table and row index new_row was computed from
    call_row,       \* argument row of the latest call of redact
    call_columns,   \* argument columns of the latest call of redact
    call_ret,       \* outcome of the latest call of redact
    call_row_after, \* the argument row as the caller holds it after that call
    call_again      \* outcome of calling redact again on the returned row

vars == <<pc, exit_status, exc, src, procs, log, staging_conn, prod_conn,
          staging_txn, staging_db, ti, rows, ri, row, new_row, new_row_bound,
          new_row_of, call_row, call_columns, call_ret, call_row_after,
          call_again>>

(***************************************************************************)
(* Bounds of the model.                                                    *)
(***************************************************************************)
MaxRows == 2

MaxWidth == 3

MaxLen == 3

MaxCols == 2

(***************************************************************************)
(* Data.                                                                   *)
(***************************************************************************)
REDACTED == "REDACTED"

\* Tables with address ahead of account.
TablesReordered == <<"address", "account", "statement">>

Tables == <<"account", "address", "statement">>

TableNames == {Tables[k] : k \in 1..Len(Tables)}

\* The value held by column j of row i of table t in the production database.
Cell(t, i, j) == t \o "_" \o ToString(i) \o "_" \o ToString(j)

TableOf(t, n, w) == [i \in 1..n |-> [j \in 1..w |-> Cell(t, i, j)]]

TableContents(t) == {TableOf(t, n, w) : n \in 0..MaxRows, w \in 1..MaxWidth}

\* Values of the rows given to redact when it is called on its own.
RowValues == {REDACTED, "x", "y"}

SeqsUpTo(S, n) == UNION {[1..k -> S] : k \in 0..n}

\* No call of redact has been made.
NoCall == [called |-> FALSE, raised |-> FALSE, value |-> <<>>]

(***************************************************************************)
(* call_process: True exactly when the error stream is empty.              *)
(***************************************************************************)
\* call_process deciding by the exit status instead of the error stream.
call_processByStatus(rc, err) == rc = 0

\* call_process requiring a zero exit status as well as an empty error stream.
call_processNeedsBoth(rc, err) == rc = 0 /\ err = ""

call_process(rc, err) == err = ""

(***************************************************************************)
(* redact: list(row), then new_row[i] = 'REDACTED' for each i in columns.  *)
(* A Python list of length L accepts the indices -L..L-1 and raises        *)
(* IndexError for any other.                                               *)
(***************************************************************************)
ListIndex(i, L) == IF i < 0 THEN L + i + 1 ELSE i + 1

RECURSIVE redact_loop(_, _)
redact_loop(lst, columns) ==
    IF columns = <<>>
    THEN [called |-> TRUE, raised |-> FALSE, value |-> lst]
    ELSE LET i == Head(columns)
             L == Len(lst)
         IN  IF i >= L \/ i < -L
             THEN [called |-> TRUE, raised |-> TRUE, value |-> <<>>]
             ELSE redact_loop([lst EXCEPT ![ListIndex(i, L)] = REDACTED],
                              Tail(columns))

\* redact returning tuple(row) instead of tuple(new_row).
redactReturnsRow(r, columns) ==
    LET ret == redact_loop(r, columns)
    IN  IF ret.raised THEN ret ELSE [ret EXCEPT !.value = r]

redact(r, columns) == redact_loop(r, columns)

\* redact working on the caller's row itself (new_row = row): the caller sees
\* the assignments of line 80.
redact_arg_aliased(r, columns) ==
    LET ret == redact_loop(r, columns)
    IN  IF ret.raised THEN r ELSE ret.value

\* Line 78: list(row) builds a new list and line 80 assigns into that list,
\* so the row the caller passed holds the same values after the call.
redact_arg_after(r, columns) == r

(***************************************************************************)
(* Helpers of the actions.                                                 *)
(***************************************************************************)
Proc(cmd, rc, err) ==
    [cmd |-> cmd, rc |-> rc, err |-> err, ret |-> call_process(rc, err)]

Op(op, sess, tbl, ok) == [op |-> op, sess |-> sess, tbl |-> tbl, ok |-> ok]

\* An uncaught exception leaves migrate_db and ends the interpreter.
Raise(e) ==
    /\ pc' = "raised"
    /\ exc' = e
    /\ exit_status' = 1

loopVars == <<ti, rows, ri, row, new_row, new_row_bound, new_row_of>>

callVars == <<call_row, call_columns, call_ret, call_row_after, call_again>>

connVars == <<staging_conn, prod_conn>>

dbVars == <<staging_txn, staging_db>>

\* SchemaStage without the sys.exit(1): the result of call_process is ignored.
SchemaStageNoExit(here, cmd, next) ==
    /\ pc = here
    /\ \E rc \in {0, 1}, err \in {"", "error"} :
          procs' = Append(procs, Proc(cmd, rc, err))
    /\ pc' = next
    /\ UNCHANGED <<exit_status, exc, src, log, connVars, dbVars, loopVars,
                   callVars>>

\* One of the three schema stages: call_process, then sys.exit(1) on False.
SchemaStage(here, cmd, next) ==
    /\ pc = here
    /\ \E rc \in {0, 1}, err \in {"", "error"} :
          /\ procs' = Append(procs, Proc(cmd, rc, err))
          /\ IF call_process(rc, err)
             THEN /\ pc' = next
                  /\ UNCHANGED <<exit_status, exc>>
             ELSE /\ pc' = "exited"
                  /\ exc' = "SystemExit"
                  /\ exit_status' = 1
    /\ UNCHANGED <<src, log, connVars, dbVars, loopVars, callVars>>

(***************************************************************************)
(* migrate_db, one action per step.                                        *)
(***************************************************************************)
Init ==
    /\ pc = "createdb"
    /\ exit_status = -1
    /\ exc = "none"
    /\ src \in [TableNames -> UNION {TableContents(t) : t \in TableNames}]
    /\ \A t \in TableNames : src[t] \in TableContents(t)
    /\ procs = <<>>
    /\ log = <<>>
    /\ staging_conn = "unopened"
    /\ prod_conn = "unopened"
    /\ staging_txn = <<>>
    /\ staging_db = <<>>
    /\ ti = 1
    /\ rows = <<>>
    /\ ri = 1
    /\ row = <<>>
    /\ new_row = <<>>
    /\ new_row_bound = FALSE
    /\ new_row_of = <<"", 0>>
    /\ call_row = <<>>
    /\ call_columns = <<>>
    /\ call_ret = NoCall
    /\ call_row_after = <<>>
    /\ call_again = NoCall

CreateDb == SchemaStage("createdb", "createdb", "pg_dump")

PgDump == SchemaStage("pg_dump", "pg_dump", "pg_restore")

PgRestore == SchemaStage("pg_restore", "pg_restore", "connect_staging")

\* Lines 112-113: staging_conn = connect_to_psql(db_out); its cursor.
ConnectStaging ==
    /\ pc = "connect_staging"
    /\ \/ /\ staging_conn' = "open"
          /\ log' = Append(log, Op("connect", "staging", "", TRUE))
          /\ pc' = "connect_prod"
          /\ UNCHANGED <<exit_status, exc>>
       \/ /\ log' = Append(log, Op("connect", "staging", "", FALSE))
          /\ Raise("OperationalError")
          /\ UNCHANGED staging_conn
    /\ UNCHANGED <<src, procs, prod_conn, dbVars, loopVars, callVars>>

\* ConnectProd with the connection attempted a second time after a failure.
ConnectProdRetriesOnce ==
    /\ pc = "connect_prod"
    /\ \/ /\ prod_conn' = "open"
          /\ log' = Append(log, Op("connect", "prod", "", TRUE))
          /\ pc' = "for_db"
          /\ UNCHANGED <<exit_status, exc>>
       \/ /\ log' = Append(log, Op("connect", "prod", "", FALSE))
          /\ IF \E k \in DOMAIN log : log[k].sess = "prod"
             THEN Raise("OperationalError")
             ELSE UNCHANGED <<pc, exit_status, exc>>
          /\ UNCHANGED prod_conn
    /\ UNCHANGED <<src, procs, staging_conn, dbVars, loopVars, callVars>>

\* Lines 116-117: prod_conn = connect_to_psql(db_in); its cursor.
ConnectProd ==
    /\ pc = "connect_prod"
    /\ \/ /\ prod_conn' = "open"
          /\ log' = Append(log, Op("connect", "prod", "", TRUE))
          /\ pc' = "for_db"
          /\ UNCHANGED <<exit_status, exc>>
       \/ /\ log' = Append(log, Op("connect", "prod", "", FALSE))
          /\ Raise("OperationalError")
          /\ UNCHANGED prod_conn
    /\ UNCHANGED <<src, procs, staging_conn, dbVars, loopVars, callVars>>

\* ForDb with the loop ending one table early.
ForDbStopsEarly ==
    /\ pc = "for_db"
    /\ IF ti >= Len(Tables)
       THEN /\ pc' = "commit"
            /\ UNCHANGED <<exit_status, exc, log, rows, ri>>
       ELSE \/ /\ log' = Append(log, Op("select", "prod", Tables[ti], TRUE))
               /\ rows' = src[Tables[ti]]
               /\ ri' = 1
               /\ pc' = "for_row"
               /\ UNCHANGED <<exit_status, exc>>
            \/ /\ log' = Append(log, Op("select", "prod", Tables[ti], FALSE))
               /\ Raise("DatabaseError")
               /\ UNCHANGED <<rows, ri>>
    /\ UNCHANGED <<src, procs, connVars, dbVars, ti, row, new_row,
                   new_row_bound, new_row_of, callVars>>

\* Lines 123-126: the next table of the list, SELECT * on the production
\* cursor and fetchall(); past the last table the loop ends.
ForDb ==
    /\ pc = "for_db"
    /\ IF ti > Len(Tables)
       THEN /\ pc' = "commit"
            /\ UNCHANGED <<exit_status, exc, log, rows, ri>>
       ELSE \/ /\ log' = Append(log, Op("select", "prod", Tables[ti], TRUE))
               /\ rows' = src[Tables[ti]]
               /\ ri' = 1
               /\ pc' = "for_row"
               /\ UNCHANGED <<exit_status, exc>>
            \/ /\ log' = Append(log, Op("select", "prod", Tables[ti], FALSE))
               /\ Raise("DatabaseError")
               /\ UNCHANGED <<rows, ri>>
    /\ UNCHANGED <<src, procs, connVars, dbVars, ti, row, new_row,
                   new_row_bound, new_row_of, callVars>>

\* ForRow with staging_conn.commit() inside the outer loop: each table is
\* committed as soon as its rows are inserted.
ForRowCommitsTable ==
    /\ pc = "for_row"
    /\ IF ri > Len(rows)
       THEN /\ ti' = ti + 1
            /\ pc' = "for_db"
            /\ staging_db' = staging_db \o staging_txn
            /\ staging_txn' = <<>>
            /\ UNCHANGED row
       ELSE /\ row' = rows[ri]
            /\ pc' = "deidentify"
            /\ UNCHANGED <<ti, dbVars>>
    /\ UNCHANGED <<exit_status, exc, src, procs, log, connVars, rows,
                   ri, new_row, new_row_bound, new_row_of, callVars>>

\* Line 126: the next row of the fetched list; past the last row the outer
\* loop goes on to the next table.
ForRow ==
    /\ pc = "for_row"
    /\ IF ri > Len(rows)
       THEN /\ ti' = ti + 1
            /\ pc' = "for_db"
            /\ UNCHANGED row
       ELSE /\ row' = rows[ri]
            /\ pc' = "deidentify"
            /\ UNCHANGED ti
    /\ UNCHANGED <<exit_status, exc, src, procs, log, connVars, dbVars, rows,
                   ri, new_row, new_row_bound, new_row_of, callVars>>

\* Lines 128-133: new_row = redact(row, 1) for account, redact(row, 2) for
\* address; no assignment for any other table.
RedactInto(columns) ==
    LET ret == redact(row, columns)
    IN  /\ call_row' = row
        /\ call_columns' = columns
        /\ call_ret' = ret
        /\ call_row_after' = redact_arg_after(row, columns)
        /\ UNCHANGED call_again
        /\ IF ret.raised
           THEN /\ Raise("IndexError")
                /\ UNCHANGED <<new_row, new_row_bound, new_row_of>>
           ELSE /\ new_row' = ret.value
                /\ new_row_bound' = TRUE
                /\ new_row_of' = <<Tables[ti], ri>>
                /\ pc' = "insert"
                /\ UNCHANGED <<exit_status, exc>>

\* Deidentify with the positions taken as 1-based: column 0 of account and
\* column 1 of address are redacted.
DeidentifyOneBased ==
    /\ pc = "deidentify"
    /\ IF Tables[ti] = "account"
       THEN RedactInto(<<0>>)
       ELSE IF Tables[ti] = "address"
       THEN RedactInto(<<1>>)
       ELSE /\ pc' = "insert"
            /\ UNCHANGED <<exit_status, exc, new_row, new_row_bound,
                           new_row_of, callVars>>
    /\ UNCHANGED <<src, procs, log, connVars, dbVars, ti, rows, ri, row>>

Deidentify ==
    /\ pc = "deidentify"
    /\ IF Tables[ti] = "account"
       THEN RedactInto(<<1>>)
       ELSE IF Tables[ti] = "address"
       THEN RedactInto(<<2>>)
       ELSE /\ pc' = "insert"
            /\ UNCHANGED <<exit_status, exc, new_row, new_row_bound,
                           new_row_of, callVars>>
    /\ UNCHANGED <<src, procs, log, connVars, dbVars, ti, rows, ri, row>>

\* InsertRow with the failure of an insert caught and the row skipped.
InsertRowSkipsFailed ==
    /\ pc = "insert"
    /\ IF ~new_row_bound
       THEN /\ Raise("UnboundLocalError")
            /\ UNCHANGED <<log, staging_txn, ri>>
       ELSE \/ /\ log' = Append(log, Op("insert", "staging", Tables[ti], TRUE))
               /\ staging_txn' = Append(staging_txn,
                      [tbl |-> Tables[ti], idx |-> ri, values |-> new_row,
                       of |-> new_row_of])
               /\ ri' = ri + 1
               /\ pc' = "for_row"
               /\ UNCHANGED <<exit_status, exc>>
            \/ /\ log' = Append(log, Op("insert", "staging", Tables[ti], FALSE))
               /\ ri' = ri + 1
               /\ pc' = "for_row"
               /\ UNCHANGED <<exit_status, exc, staging_txn>>
    /\ UNCHANGED <<src, procs, connVars, staging_db, ti, rows, row, new_row,
                   new_row_bound, new_row_of, callVars>>

\* InsertRow with the statement executed on prod_cursor: the row lands in the
\* production table.
InsertRowOnProd ==
    /\ pc = "insert"
    /\ IF ~new_row_bound
       THEN /\ Raise("UnboundLocalError")
            /\ UNCHANGED <<log, src, ri>>
       ELSE \/ /\ log' = Append(log, Op("insert", "prod", Tables[ti], TRUE))
               /\ src' = [src EXCEPT ![Tables[ti]] = Append(@, new_row)]
               /\ ri' = ri + 1
               /\ pc' = "for_row"
               /\ UNCHANGED <<exit_status, exc>>
            \/ /\ log' = Append(log, Op("insert", "prod", Tables[ti], FALSE))
               /\ Raise("DatabaseError")
               /\ UNCHANGED <<src, ri>>
    /\ UNCHANGED <<procs, connVars, dbVars, ti, rows, row, new_row,
                   new_row_bound, new_row_of, callVars>>

\* Lines 136-137: the INSERT statement is formatted from len(new_row) and
\* executed on the staging cursor with new_row as its parameters.
InsertRow ==
    /\ pc = "insert"
    /\ IF ~new_row_bound
       THEN /\ Raise("UnboundLocalError")
            /\ UNCHANGED <<log, staging_txn, ri>>
       ELSE \/ /\ log' = Append(log, Op("insert", "staging", Tables[ti], TRUE))
               /\ staging_txn' = Append(staging_txn,
                      [tbl |-> Tables[ti], idx |-> ri, values |-> new_row,
                       of |-> new_row_of])
               /\ ri' = ri + 1
               /\ pc' = "for_row"
               /\ UNCHANGED <<exit_status, exc>>
            \/ /\ log' = Append(log, Op("insert", "staging", Tables[ti], FALSE))
               /\ Raise("DatabaseError")
               /\ UNCHANGED <<staging_txn, ri>>
    /\ UNCHANGED <<src, procs, connVars, staging_db, ti, rows, row, new_row,
                   new_row_bound, new_row_of, callVars>>

\* Line 139: staging_conn.commit() makes the transaction's rows visible.
\* The connection is used as connect() returns it, without autocommit: the
\* inserts of a run stay in one open transaction until this call.
Commit ==
    /\ pc = "commit"
    /\ \/ /\ log' = Append(log, Op("commit", "staging", "", TRUE))
          /\ staging_db' = staging_db \o staging_txn
          /\ staging_txn' = <<>>
          /\ pc' = "close_staging"
          /\ UNCHANGED <<exit_status, exc>>
       \/ /\ log' = Append(log, Op("commit", "staging", "", FALSE))
          /\ Raise("DatabaseError")
          /\ UNCHANGED dbVars
    /\ UNCHANGED <<src, procs, connVars, loopVars, callVars>>

\* Line 142: staging_conn.close().
CloseStaging ==
    /\ pc = "close_staging"
    /\ staging_conn' = "closed"
    /\ log' = Append(log, Op("close", "staging", "", TRUE))
    /\ pc' = "close_prod"
    /\ UNCHANGED <<exit_status, exc, src, procs, prod_conn, dbVars, loopVars,
                   callVars>>

\* Line 143: prod_conn.close(); migrate_db returns and the script ends.
CloseProd ==
    /\ pc = "close_prod"
    /\ prod_conn' = "closed"
    /\ log' = Append(log, Op("close", "prod", "", TRUE))
    /\ pc' = "done"
    /\ exit_status' = 0
    /\ UNCHANGED <<exc, src, procs, staging_conn, dbVars, loopVars, callVars>>

Next ==
    \/ CreateDb
    \/ PgDump
    \/ PgRestore
    \/ ConnectStaging
    \/ ConnectProd
    \/ ForDb
    \/ ForRow
    \/ Deidentify
    \/ InsertRow
    \/ Commit
    \/ CloseStaging
    \/ CloseProd

Spec == Init /\ [][Next]_vars

(***************************************************************************)
(* redact called on its own, with any row and any positions of bounded     *)
(* size.                                                                   *)
(***************************************************************************)
InitRedact ==
    /\ pc = "redact"
    /\ exit_status = -1
    /\ exc = "none"
    /\ src = [t \in TableNames |-> <<>>]
    /\ procs = <<>>
    /\ log = <<>>
    /\ staging_conn = "unopened"
    /\ prod_conn = "unopened"
    /\ staging_txn = <<>>
    /\ staging_db = <<>>
    /\ ti = 1
    /\ rows = <<>>
    /\ ri = 1
    /\ row = <<>>
    /\ new_row = <<>>
    /\ new_row_bound = FALSE
    /\ new_row_of = <<"", 0>>
    /\ call_row \in SeqsUpTo(RowValues, MaxLen)
    /\ call_columns \in SeqsUpTo((-(MaxLen + 1))..(MaxLen + 1), MaxCols)
    /\ call_ret = NoCall
    /\ call_row_after = <<>>
    /\ call_again = NoCall

RedactCall ==
    /\ pc = "redact"
    /\ call_ret' = redact(call_row, call_columns)
    /\ call_row_after' = redact_arg_after(call_row, call_columns)
    /\ pc' = "redact_returned"
    /\ UNCHANGED <<exit_status, exc, src, procs, log, connVars, dbVars,
                   loopVars, call_row, call_columns, call_again>>

\* redact applied to the row a call returned, with the same positions.
RedactAgain ==
    /\ pc = "redact_returned"
    /\ ~call_ret.raised
    /\ call_again' = redact(call_ret.value, call_columns)
    /\ pc' = "redact_again"
    /\ UNCHANGED <<exit_status, exc, src, procs, log, connVars, dbVars,
                   loopVars, call_row, call_columns, call_ret, call_row_after>>

NextRedact ==
    \/ RedactCall
    \/ RedactAgain

SpecRedact == InitRedact /\ [][NextRedact]_vars

(***************************************************************************)
(* Vocabulary of the properties.                                           *)
(***************************************************************************)
\* Every row inserted on the staging session in this run, in order.
Inserted == staging_db \o staging_txn

RunEnded == pc \in {"done", "exited", "raised"}

OpsOf(op) == {k \in DOMAIN log : log[k].op = op}

CommitDone == \E k \in OpsOf("commit") : log[k].ok

ReadFailed == \E k \in OpsOf("select") : ~log[k].ok

WriteFailed == \E k \in OpsOf("insert") : ~log[k].ok

\* The copy of a table failed: a read or write failure, or an exception of
\* the loop body itself.
CopyFailed ==
    \/ ReadFailed
    \/ WriteFailed
    \/ pc = "raised" /\ exc \in {"IndexError", "UnboundLocalError"}

RowsOf(db, t) == SelectSeq(db, LAMBDA e : e.tbl = t)

\* The Python positions named by a sequence of columns.
Positions(columns) == {columns[k] : k \in DOMAIN columns}

\* values is the source row s with exactly Python position p redacted.
RedactedAt(values, s, p) ==
    /\ Len(values) = Len(s)
    /\ p + 1 \in DOMAIN values
    /\ values[p + 1] = REDACTED
    /\ \A j \in DOMAIN s : j # p + 1 => values[j] = s[j]

(***************************************************************************)
(* C1: every row inserted into destination table statement equals the      *)
(* source statement row it was read from.                                  *)
(***************************************************************************)
C1_StatementRowCopied ==
    \A k \in DOMAIN Inserted :
        Inserted[k].tbl = "statement"
            => Inserted[k].values = src["statement"][Inserted[k].idx]

(***************************************************************************)
(* C2: every row inserted into destination table account holds REDACTED at *)
(* position 1, every row inserted into address holds it at position 2, and *)
(* the other positions equal those of the source row it was derived from.  *)
(***************************************************************************)
C2_PiiRedacted ==
    \A k \in DOMAIN Inserted :
        LET e == Inserted[k]
        IN  /\ e.tbl = "account" => RedactedAt(e.values, src["account"][e.idx], 1)
            /\ e.tbl = "address" => RedactedAt(e.values, src["address"][e.idx], 2)

C2_Witness ==
    /\ pc = "done"
    /\ Len(RowsOf(staging_db, "account")) = 2
    /\ Len(RowsOf(staging_db, "address")) = 2
    /\ Len(src["account"][1]) = 3

(***************************************************************************)
(* C3: if the copy of any table fails, no row of any table of the run is   *)
(* committed in the destination once the run has ended.                    *)
(***************************************************************************)
C3_Atomicity == (RunEnded /\ CopyFailed) => staging_db = <<>>

C3_Witness ==
    /\ pc = "raised"
    /\ WriteFailed
    /\ Tables[ti] = "address"
    /\ Len(RowsOf(staging_txn, "account")) = 2
    /\ Len(RowsOf(staging_txn, "address")) = 1

(***************************************************************************)
(* C4: a run that opened the destination session has, when it ends, ended  *)
(* the destination transaction by exactly one of commit and rollback; a    *)
(* run in which a table copy fails issued a rollback and no commit.        *)
(***************************************************************************)
C4_CommitXorRollback ==
    (RunEnded /\ staging_conn # "unopened")
        => /\ CommitDone # (OpsOf("rollback") # {})
           /\ CopyFailed => (OpsOf("rollback") # {} /\ OpsOf("commit") = {})

(***************************************************************************)
(* C5: no run ends with a session still open.                              *)
(***************************************************************************)
C5_SessionsClosed ==
    RunEnded => (staging_conn # "open" /\ prod_conn # "open")

(***************************************************************************)
(* C6: redact signals an error, and returns no row, whenever a requested   *)
(* position is negative or is at least the length of the row.              *)
(***************************************************************************)
C6_BadPositionRaises ==
    (/\ call_ret.called
     /\ \E p \in Positions(call_columns) : p < 0 \/ p >= Len(call_row))
        => (call_ret.raised /\ call_ret.value = <<>>)

(***************************************************************************)
(* C7: for positions within 0..L-1, redact returns a row of length L with  *)
(* REDACTED at each position of the set and the input's element at every   *)
(* other position.                                                         *)
(***************************************************************************)
C7_RedactionCorrect ==
    (/\ call_ret.called
     /\ \A p \in Positions(call_columns) : p >= 0 /\ p < Len(call_row))
        => /\ ~call_ret.raised
           /\ Len(call_ret.value) = Len(call_row)
           /\ \A j \in DOMAIN call_row :
                 call_ret.value[j] = IF j - 1 \in Positions(call_columns)
                                     THEN REDACTED
                                     ELSE call_row[j]

C7_Witness ==
    /\ call_ret.called
    /\ call_row = <<"x", "y", "x">>
    /\ call_columns = <<0, 2>>
    /\ call_ret.value = <<REDACTED, "y", REDACTED>>

(***************************************************************************)
(* C8: when createdb, the schema export or the schema import is reported   *)
(* failed, the process exits with a non-zero status and no later stage     *)
(* runs: no further command, no session, no row read or inserted.          *)
(***************************************************************************)
C8_FailFast ==
    \A k \in DOMAIN procs :
        /\ procs[k].cmd = <<"createdb", "pg_dump", "pg_restore">>[k]
        /\ ~procs[k].ret
              => /\ k = Len(procs)
                 /\ pc = "exited"
                 /\ exit_status = 1
                 /\ log = <<>>
                 /\ staging_conn = "unopened"
                 /\ prod_conn = "unopened"
                 /\ Inserted = <<>>

C8_Witness ==
    /\ pc = "exited"
    /\ Len(procs) = 2
    /\ procs[1].ret
    /\ ~procs[2].ret
    /\ src["account"] # <<>>

(***************************************************************************)
(* C9: in a run without read or write failure, at the commit each          *)
(* destination table holds exactly one inserted row per source row of the  *)
(* same-named table; after a run that ends without a commit no destination *)
(* table holds a row.                                                      *)
(***************************************************************************)
C9_RowCountConserved ==
    /\ (CommitDone /\ ~ReadFailed /\ ~WriteFailed)
          => \A t \in TableNames :
                /\ Len(RowsOf(staging_db, t)) = Len(src[t])
                /\ \A i \in DOMAIN src[t] : RowsOf(staging_db, t)[i].idx = i
    /\ (RunEnded /\ ~CommitDone) => staging_db = <<>>

C9_Witness ==
    /\ CommitDone
    /\ \A t \in TableNames : Len(src[t]) = 2 /\ Len(RowsOf(staging_db, t)) = 2

(***************************************************************************)
(* C10: once an insert into the destination has failed, no further row is  *)
(* read or inserted and the destination transaction is never committed.    *)
(***************************************************************************)
C10_WriteFailureAborts ==
    \A k \in OpsOf("insert") :
        ~log[k].ok
           => /\ k = Len(log)
              /\ pc = "raised"
              /\ OpsOf("commit") = {}
              /\ staging_db = <<>>

C10_Witness ==
    /\ WriteFailed
    /\ Tables[ti] = "account"
    /\ ri < Len(rows)
    /\ src["address"] # <<>>
    /\ src["statement"] # <<>>

(***************************************************************************)
(* Vocabulary of the ordering properties.                                  *)
(***************************************************************************)
\* The order of the plan, as the claims state it.
PlanOrder == <<"account", "address", "statement">>

PlanRank(t) == CHOOSE k \in DOMAIN PlanOrder : PlanOrder[k] = t

SchemaCmds == <<"createdb", "pg_dump", "pg_restore">>

TableOps == OpsOf("select") \cup OpsOf("insert")

\* The number of successful inserts into table t among the first n operations.
InsertedBefore(t, n) ==
    Cardinality({k \in OpsOf("insert") : k < n /\ log[k].tbl = t /\ log[k].ok})

\* The place of a session operation in the sequence of stages of a run.
StageRank(e) ==
    CASE e.op = "connect" /\ e.sess = "staging" -> 1
      [] e.op = "connect" /\ e.sess = "prod" -> 2
      [] e.op \in {"select", "insert"} -> 2 + PlanRank(e.tbl)
      [] e.op = "commit" -> 6
      [] e.op = "close" /\ e.sess = "staging" -> 7
      [] OTHER -> 8

(***************************************************************************)
(* C11: a redaction position that is no valid index for the rows of its    *)
(* table is reported before any row processing: no row of any table has    *)
(* been inserted on the destination session when the error is raised.      *)
(***************************************************************************)
C11_DriftReportedFirst ==
    (pc = "raised" /\ exc = "IndexError") => Inserted = <<>>

(***************************************************************************)
(* C12: the destination transaction is committed at most once and only     *)
(* after every table has been copied completely, in the order account,     *)
(* address, statement: every row of an earlier table is inserted before a  *)
(* later table is read, and nothing is committed between tables.           *)
(***************************************************************************)
C12_CommitOnceAfterAll ==
    /\ Cardinality(OpsOf("commit")) <= 1
    /\ \A j, k \in TableOps :
          j < k => PlanRank(log[j].tbl) <= PlanRank(log[k].tbl)
    /\ \A k \in OpsOf("select") : \A t \in TableNames :
          PlanRank(t) < PlanRank(log[k].tbl)
             => InsertedBefore(t, k) = Len(src[t])
    /\ \A k \in OpsOf("commit") : \A t \in TableNames :
          /\ \E j \in OpsOf("select") : j < k /\ log[j].tbl = t /\ log[j].ok
          /\ InsertedBefore(t, k) = Len(src[t])
    /\ staging_db # <<>> => CommitDone

C12_Witness ==
    /\ pc = "close_staging"
    /\ Cardinality(OpsOf("commit")) = 1
    /\ Len(staging_db) = 6
    /\ Cardinality(OpsOf("insert")) = 6

(***************************************************************************)
(* C13: an external call whose error stream is non-empty is treated as     *)
(* failed even when its exit status is zero: call_process returns False    *)
(* and migrate_db aborts the run at that stage.                            *)
(***************************************************************************)
C13_ErrorStreamFails ==
    \A k \in DOMAIN procs :
        procs[k].err # ""
           => /\ ~procs[k].ret
              /\ k = Len(procs)
              /\ pc = "exited"
              /\ log = <<>>

C13_Witness ==
    /\ pc = "exited"
    /\ Len(procs) = 3
    /\ procs[3].rc = 0
    /\ procs[3].err # ""

C15_StagesInOrder ==
    /\ Len(procs) <= Len(SchemaCmds)
    /\ \A k \in DOMAIN procs :
          /\ procs[k].cmd = SchemaCmds[k]
          /\ ~procs[k].ret => (k = Len(procs) /\ log = <<>>)
    /\ log # <<>> => Len(procs) = Len(SchemaCmds)
    /\ \A j, k \in DOMAIN log :
          j < k => \/ StageRank(log[j]) < StageRank(log[k])
                   \/ /\ StageRank(log[j]) = StageRank(log[k])
                      /\ log[k].op = "insert"
    /\ \A k \in DOMAIN log : ~log[k].ok => k = Len(log)

\* C15 as a property of behaviours: the order holds in every state and a run
\* that has ended takes no further step.
C15_NoRetry == []C15_StagesInOrder /\ [][~RunEnded]_vars

C15_Witness ==
    /\ pc = "raised"
    /\ Len(log) = 7
    /\ ~log[7].ok
    /\ log[7].op = "insert"
    /\ log[7].tbl = "address"
    /\ src["statement"] # <<>>

(***************************************************************************)
(* C16: the source database is left unchanged by a run: the source session *)
(* only connects, reads and closes, never writes and never commits.        *)
(***************************************************************************)
C16_SourceReadOnly ==
    \A k \in DOMAIN log :
        log[k].sess = "prod" => log[k].op \in {"connect", "select", "close"}

\* C16 as a property of behaviours: the source session only reads and no
\* step changes the contents of the source tables.
C16_SourceUnchanged == []C16_SourceReadOnly /\ [][src' = src]_vars

C16_Witness ==
    /\ pc = "raised"
    /\ WriteFailed
    /\ Tables[ti] = "statement"
    /\ Cardinality({k \in OpsOf("select") : log[k].sess = "prod"}) = 3
    /\ Len(staging_txn) = 4

(***************************************************************************)
(* C17: the result of call_process depends only on the error stream: it is *)
(* True exactly when the stream is empty, calls that differ only in exit   *)
(* status have the same result, and migrate_db goes on or exits by it.     *)
(***************************************************************************)
C17_ResultIgnoresStatus ==
    /\ \A k \in DOMAIN procs :
          /\ procs[k].ret = (procs[k].err = "")
          /\ procs[k].err = "" => (k < Len(procs) \/ pc # "exited")
          /\ procs[k].err # "" => (k = Len(procs) /\ pc = "exited")
    /\ \A j, k \in DOMAIN procs :
          procs[j].err = procs[k].err => procs[j].ret = procs[k].ret

C17_Witness ==
    /\ pc = "done"
    /\ procs[1].rc = 0
    /\ procs[2].rc = 1
    /\ procs[3].rc = 1
    /\ procs[2].ret

(***************************************************************************)
(* C18: the row inserted into a destination table during the copy of that  *)
(* table is derived from the source row of that table fetched in the       *)
(* current iteration, never from a row of another table or of an earlier   *)
(* iteration.                                                              *)
(***************************************************************************)
C18_InsertFromCurrentRow ==
    \A k \in DOMAIN Inserted :
        Inserted[k].of = <<Inserted[k].tbl, Inserted[k].idx>>

====
